---------------------------- MODULE Spec2Model ----------------------------
(* A model of generate_index.py: the markup scanner SimpleTitleH1Parser,   *)
(* the name resolver (extract_name_from_html, humanize_from_filename), the *)
(* period resolver (extract_month_year) and the index builder (main).      *)
(*                                                                         *)
(* Text is a sequence of characters; a character is a one-element name.    *)
(* The module is ASCII, so a Cyrillic letter is written as its             *)
(* transliteration with the prefix "c_" (lower case) or "C_" (upper case): *)
(* "c_ya" is the letter ya, "C_M" the capital em; "endash" is U+2013.      *)
(* Python's None is the empty tuple and a present value v is <<v>>.        *)
EXTENDS Integers, Sequences, FiniteSets, TLC

VARIABLES pc, parser, fed, text, html_path, raw_name, name, period,
          reports, listing, todo, items, outfile

vars == <<pc, parser, fed, text, html_path, raw_name, name, period,
          reports, listing, todo, items, outfile>>

-----------------------------------------------------------------------------
(* Characters and strings *)

None == <<>>

Some(v) == <<v>>

\* str.strip() and the regex class \s: the whitespace of the model's alphabet
Whitespace == {" ", "\n"}

\* the regex class \d
Digits == {"0", "1", "2", "3", "4", "5", "6", "7", "8", "9"}

\* int() of one decimal digit
DigitVal(c) ==
    CASE c = "0" -> 0 [] c = "1" -> 1 [] c = "2" -> 2 [] c = "3" -> 3
      [] c = "4" -> 4 [] c = "5" -> 5 [] c = "6" -> 6 [] c = "7" -> 7
      [] c = "8" -> 8 [] c = "9" -> 9

\* int() of a string of decimal digits
RECURSIVE ToInt(_)
ToInt(s) ==
    IF s = <<>> THEN 0
    ELSE 10 * ToInt(SubSeq(s, 1, Len(s) - 1)) + DigitVal(s[Len(s)])

\* the cased letters of the model's alphabet, as <<upper, lower>>
CasePairs ==
    {<<"A", "a">>, <<"B", "b">>, <<"H", "h">>, <<"R", "r">>, <<"S", "s">>,
     <<"J", "j">>, <<"C_M", "c_m">>, <<"C_I", "c_i">>, <<"C_YA", "c_ya">>,
     <<"C_D", "c_d">>, <<"C_A", "c_a">>}

\* str.lower() of one character; also the case folding of re.I
LowerChar(c) ==
    IF \E q \in CasePairs : q[1] = c
    THEN (CHOOSE q \in CasePairs : q[1] = c)[2]
    ELSE c

\* str.upper() of one character
UpperChar(c) ==
    IF \E q \in CasePairs : q[2] = c
    THEN (CHOOSE q \in CasePairs : q[2] = c)[1]
    ELSE c

\* the regex class [А-ЯA-ZЁ]: the upper-case letters of either alphabet
UpperLetters == {q[1] : q \in CasePairs}

\* str.strip()
Strip(s) ==
    LET keep == {i \in 1..Len(s) : s[i] \notin Whitespace}
    IN  IF keep = {} THEN <<>>
        ELSE SubSeq(s, CHOOSE i \in keep : \A j \in keep : i <= j,
                       CHOOSE i \in keep : \A j \in keep : j <= i)

\* " ".join(chunks)
RECURSIVE Join(_)
Join(chunks) ==
    IF chunks = <<>> THEN <<>>
    ELSE IF Len(chunks) = 1 THEN chunks[1]
    ELSE chunks[1] \o <<" ">> \o Join(Tail(chunks))

\* tag.lower() of a tag or attribute name
LowerTag(t) ==
    CASE t = "TITLE" -> "title"
      [] t = "H1" -> "h1"
      [] t = "META" -> "meta"
      [] t = "Report-Month" -> "report-month"
      [] OTHER -> t

-----------------------------------------------------------------------------
(* SimpleTitleH1Parser *)

NoAttrs == [name |-> "", content |-> <<>>]

StartTag(t) == [type |-> "starttag", tag |-> t, attrs |-> NoAttrs, data |-> <<>>]

EndTag(t) == [type |-> "endtag", tag |-> t, attrs |-> NoAttrs, data |-> <<>>]

Data(d) == [type |-> "data", tag |-> "", attrs |-> NoAttrs, data |-> d]

\* SimpleTitleH1Parser.__init__
ParserInit ==
    [in_title |-> FALSE, in_h1 |-> FALSE,
     title_text |-> <<>>, h1_text |-> <<>>, all_text |-> <<>>]

handle_starttag(p, tag) ==
    IF LowerTag(tag) = "title" THEN [p EXCEPT !.in_title = TRUE]
    ELSE IF LowerTag(tag) = "h1" THEN [p EXCEPT !.in_h1 = TRUE]
    ELSE p

handle_endtag(p, tag) ==
    IF LowerTag(tag) = "title" THEN [p EXCEPT !.in_title = FALSE]
    ELSE IF LowerTag(tag) = "h1" THEN [p EXCEPT !.in_h1 = FALSE]
    ELSE p

\* a slip: the heading buffer is only filled outside the title element
handle_data_elif(p, data) ==
    LET s == Strip(data)
    IN  IF s = <<>> THEN p
        ELSE [p EXCEPT !.all_text = Append(@, s),
                       !.title_text = IF p.in_title THEN Append(@, s) ELSE @,
                       !.h1_text = IF ~p.in_title /\ p.in_h1 THEN Append(@, s) ELSE @]

handle_data(p, data) ==
    LET s == Strip(data)
    IN  IF s = <<>> THEN p
        ELSE [p EXCEPT !.all_text = Append(@, s),
                       !.title_text = IF p.in_title THEN Append(@, s) ELSE @,
                       !.h1_text = IF p.in_h1 THEN Append(@, s) ELSE @]

\* HTMLParser dispatching one token to its handler
Dispatch(p, e) ==
    CASE e.type = "starttag" -> handle_starttag(p, e.tag)
      [] e.type = "endtag" -> handle_endtag(p, e.tag)
      [] e.type = "data" -> handle_data(p, e.data)

\* p.feed(text): the tokens of the text, in document order
RECURSIVE Feed(_, _)
Feed(p, tokens) ==
    IF tokens = <<>> THEN p
    ELSE Feed(Dispatch(p, Head(tokens)), Tail(tokens))

-----------------------------------------------------------------------------
(* Name resolver *)

\* the regex class [:\-–]
Separators == {":", "-", "endash"}

\* the characters the regex class [^|<>()] leaves out
Excluded == {"|", "<", ">", "(", ")"}

\* the first index of s after i that holds no whitespace (the greedy \s*),
\* Len(s) + 1 when there is none
SkipWhitespace(s, i) ==
    LET rest == {j \in (i + 1)..Len(s) : s[j] \notin Whitespace}
    IN  IF rest = {} THEN Len(s) + 1
        ELSE CHOOSE j \in rest : \A k \in rest : j <= k

\* a slip: \s+ in place of \s*
NameGroupStart_plus(title, i) ==
    IF i + 1 <= Len(title) /\ title[i + 1] \in Whitespace
    THEN SkipWhitespace(title, i)
    ELSE Len(title) + 1

\* where group 1 starts when the pattern is tried with its separator at i
NameGroupStart(title, i) == SkipWhitespace(title, i)

\* the pattern [:\-–]\s*([А-ЯA-ZЁ][^|<>()]{2,})$ matched with its first
\* character at index i of title
NameMatchAt(title, i) ==
    LET j == NameGroupStart(title, i)
    IN  /\ title[i] \in Separators
        /\ j <= Len(title)
        /\ title[j] \in UpperLetters
        /\ Len(title) - j >= 2
        /\ \A k \in (j + 1)..Len(title) : title[k] \notin Excluded

\* re.search(...) on the title and m.group(1): the leftmost match
NameSearch(title) ==
    LET hits == {i \in 1..Len(title) : NameMatchAt(title, i)}
    IN  IF hits = {} THEN None
        ELSE LET i == CHOOSE h \in hits : \A g \in hits : h <= g
             IN  Some(SubSeq(title, NameGroupStart(title, i), Len(title)))

extract_name_from_html(tokens) ==
    LET p == Feed(ParserInit, tokens)
        title == Strip(Join(p.title_text))
        h1 == Strip(Join(p.h1_text))
        m == NameSearch(title)
    IN  IF title # <<>>
        THEN IF m # None THEN Some(Strip(m[1])) ELSE Some(title)
        ELSE IF h1 # <<>> THEN Some(h1)
        ELSE None

\* the suffix every path of glob("*.html") ends with
HtmlSuffix == <<".", "h", "t", "m", "l">>

\* a slip: the stem is cut at the first dot of the name
PathStem_firstdot(fname) ==
    LET dots == {i \in 1..Len(fname) : fname[i] = "."}
    IN  IF dots = {} THEN fname
        ELSE SubSeq(fname, 1, (CHOOSE i \in dots : \A j \in dots : i <= j) - 1)

\* PurePath.stem: the name up to its last dot, unless that dot is the
\* first or the last character
PathStem(fname) ==
    LET dots == {i \in 1..Len(fname) : fname[i] = "."}
        last == CHOOSE i \in dots : \A j \in dots : j <= i
    IN  IF dots # {} /\ 1 < last /\ last < Len(fname)
        THEN SubSeq(fname, 1, last - 1)
        ELSE fname

\* the regex class [_\-\.]
FilenameSeparators == {"_", "-", "."}

\* re.split(r"[_\-\.]+", s) from index i on: cur is the part being read,
\* out the parts already closed, insep whether a separator run is open
RECURSIVE SplitFrom(_, _, _, _, _)
SplitFrom(s, i, cur, out, insep) ==
    IF i > Len(s) THEN Append(out, cur)
    ELSE IF s[i] \in FilenameSeparators
    THEN IF insep THEN SplitFrom(s, i + 1, cur, out, TRUE)
         ELSE SplitFrom(s, i + 1, <<>>, Append(out, cur), TRUE)
    ELSE SplitFrom(s, i + 1, Append(cur, s[i]), out, FALSE)

Split(s) == SplitFrom(s, 1, <<>>, <<>>, FALSE)

\* str.capitalize()
Capitalize(s) ==
    [i \in 1..Len(s) |-> IF i = 1 THEN UpperChar(s[i]) ELSE LowerChar(s[i])]

NonEmpty(part) == part # <<>>

\* the generator (s.capitalize() for s in parts if s)
RECURSIVE CapitalizeAll(_)
CapitalizeAll(parts) ==
    IF parts = <<>> THEN <<>>
    ELSE <<Capitalize(Head(parts))>> \o CapitalizeAll(Tail(parts))

humanize_from_filename(fname) ==
    Join(CapitalizeAll(SelectSeq(Split(PathStem(fname)), NonEmpty)))

\* re.sub(r"\s+", " ", s): every run of whitespace becomes one space
RECURSIVE SubWhitespace(_)
SubWhitespace(s) ==
    IF s = <<>> THEN <<>>
    ELSE IF s[1] \in Whitespace
    THEN <<" ">> \o SubWhitespace(SubSeq(s, SkipWhitespace(s, 1), Len(s)))
    ELSE <<s[1]>> \o SubWhitespace(Tail(s))

\* Python's `value or fallback` for an optional string
OrElse(value, fallback) ==
    IF value = None \/ value[1] = <<>> THEN fallback ELSE value[1]

-----------------------------------------------------------------------------
(* Period resolver *)

\* the words of the regular language A B
Cat(A, B) == {a \o b : a \in A, b \in B}

\* MONTHS: for each month number the words its pattern matches and its label
\* (the labels are the transliterated Cyrillic names)
MONTHS ==
    [n \in 1..12 |->
       CASE n = 1 -> [pat |-> Cat({<<"c_ya", "c_n", "c_v">>},
                                  {<<"c_a", "c_r", "c_soft">>, <<"c_a", "c_r", "c_ya">>,
                                   <<".">>, <<>>}),
                      label |-> "Yanvar"]
         [] n = 2 -> [pat |-> Cat(Cat({<<"c_f", "c_e", "c_v">>}, {<<"c_r">>, <<>>}),
                                  {<<"c_a", "c_l", "c_soft">>, <<"c_a", "c_l", "c_ya">>,
                                   <<".">>, <<>>}),
                      label |-> "Fevral"]
         [] n = 3 -> [pat |-> Cat({<<"c_m", "c_a", "c_r", "c_t">>}, {<<"c_a">>, <<>>}),
                      label |-> "Mart"]
         [] n = 4 -> [pat |-> Cat({<<"c_a", "c_p", "c_r", "c_e", "c_l">>},
                                  {<<"c_soft">>, <<"c_ya">>, <<".">>, <<>>}),
                      label |-> "Aprel"]
         [] n = 5 -> [pat |-> Cat({<<"c_m", "c_a">>}, {<<"c_j">>, <<"c_ya">>}),
                      label |-> "Maj"]
         [] n = 6 -> [pat |-> Cat({<<"c_i", "c_yu", "c_n">>}, {<<"c_soft">>, <<"c_ya">>}),
                      label |-> "Iyun"]
         [] n = 7 -> [pat |-> Cat({<<"c_i", "c_yu", "c_l">>}, {<<"c_soft">>, <<"c_ya">>}),
                      label |-> "Iyul"]
         [] n = 8 -> [pat |-> Cat({<<"c_a", "c_v", "c_g", "c_u", "c_s", "c_t">>},
                                  {<<"c_a">>, <<>>}),
                      label |-> "Avgust"]
         [] n = 9 -> [pat |-> Cat({<<"c_s", "c_e", "c_n", "c_t", "c_ya", "c_b", "c_r">>},
                                  {<<"c_soft">>, <<"c_ya">>}),
                      label |-> "Sentyabr"]
         [] n = 10 -> [pat |-> Cat({<<"c_o", "c_k", "c_t", "c_ya", "c_b", "c_r">>},
                                   {<<"c_soft">>, <<"c_ya">>}),
                       label |-> "Oktyabr"]
         [] n = 11 -> [pat |-> Cat({<<"c_n", "c_o", "c_ya", "c_b", "c_r">>},
                                   {<<"c_soft">>, <<"c_ya">>}),
                       label |-> "Noyabr"]
         [] n = 12 -> [pat |-> Cat({<<"c_d", "c_e", "c_k", "c_a", "c_b", "c_r">>},
                                   {<<"c_soft">>, <<"c_ya">>}),
                       label |-> "Dekabr"]]

\* MONTH_COMPILED: (num, name, rx) in the order of MONTHS.items()
MONTH_COMPILED == [n \in 1..12 |-> <<n, MONTHS[n].label, MONTHS[n].pat>>]

\* MONTHS.get(m, (None, None))[1]
MonthLabel(m) == IF m \in DOMAIN MONTHS THEN Some(MONTHS[m].label) ELSE None

\* rx, compiled with re.I, matches s with its first character at index i
RxMatchAt(rx, s, i) ==
    \E w \in rx :
        /\ i + Len(w) - 1 <= Len(s)
        /\ \A k \in 1..Len(w) : LowerChar(s[i + k - 1]) = LowerChar(w[k])

\* rx.search(s): m.start() of the leftmost match (an offset from 0), or None
RxSearch(rx, s) ==
    LET hits == {i \in 1..Len(s) : RxMatchAt(rx, s, i)}
    IN  IF hits = {} THEN None
        ELSE Some((CHOOSE h \in hits : \A g \in hits : h <= g) - 1)

\* a slip: the month whose match starts first in the text wins
MonthSearch_leftmost(blob) ==
    LET found == {n \in 1..12 : RxSearch(MONTH_COMPILED[n][3], blob) # None}
        at(n) == RxSearch(MONTH_COMPILED[n][3], blob)[1]
    IN  IF found = {} THEN [found_month |-> None, found_month_name |-> None, pos |-> None]
        ELSE LET n == CHOOSE f \in found :
                         \A g \in found : at(f) < at(g) \/ (at(f) = at(g) /\ f <= g)
             IN  [found_month |-> Some(MONTH_COMPILED[n][1]),
                  found_month_name |-> Some(MONTH_COMPILED[n][2]),
                  pos |-> Some(at(n))]

\* the loop over MONTH_COMPILED from entry n on: the first entry whose
\* pattern is found ends it
RECURSIVE MonthLoop(_, _)
MonthLoop(blob, n) ==
    IF n > Len(MONTH_COMPILED)
    THEN [found_month |-> None, found_month_name |-> None, pos |-> None]
    ELSE LET m == RxSearch(MONTH_COMPILED[n][3], blob)
         IN  IF m # None
             THEN [found_month |-> Some(MONTH_COMPILED[n][1]),
                   found_month_name |-> Some(MONTH_COMPILED[n][2]),
                   pos |-> m]
             ELSE MonthLoop(blob, n + 1)

MonthSearch(blob) == MonthLoop(blob, 1)

\* the half-width of the window the year is looked for in
Window == 40

Max(a, b) == IF a >= b THEN a ELSE b

Min(a, b) == IF a <= b THEN a ELSE b

\* a slip: the year is looked for in the whole text
Around_whole(blob, pos) == blob

\* blob[window_start:window_end]
Around(blob, pos) ==
    LET window_start == Max(0, pos - Window)
        window_end == Min(Len(blob), pos + Window)
    IN  SubSeq(blob, window_start + 1, window_end)

\* YEAR_RE, (20\d{2}), matches s with its first character at index i
YearMatchAt(s, i) ==
    /\ i + 3 <= Len(s)
    /\ s[i] = "2"
    /\ s[i + 1] = "0"
    /\ s[i + 2] \in Digits
    /\ s[i + 3] \in Digits

\* YEAR_RE.search(s) and int(ym.group(1)) if ym else None
YearSearch(s) ==
    LET hits == {i \in 1..Len(s) : YearMatchAt(s, i)}
    IN  IF hits = {} THEN None
        ELSE LET i == CHOOSE h \in hits : \A g \in hits : h <= g
             IN  Some(ToInt(SubSeq(s, i, i + 3)))

\* the content attribute has the form (\d{4})-(\d{2})
MetaContentOk(c) ==
    /\ Len(c) = 7
    /\ c[5] = "-"
    /\ \A i \in {1, 2, 3, 4, 6, 7} : c[i] \in Digits

\* the pattern <meta\s+name=["']report-month["']\s+content=["'](\d{4})-(\d{2})["'],
\* compiled with re.I, matches the tag e
MetaMatch(e) ==
    /\ e.type = "starttag"
    /\ LowerTag(e.tag) = "meta"
    /\ LowerTag(e.attrs.name) = "report-month"
    /\ MetaContentOk(e.attrs.content)

\* re.search of that pattern in the raw text: the content attribute of the
\* first tag it matches, or None
MetaSearch(tokens) ==
    LET hits == {i \in 1..Len(tokens) : MetaMatch(tokens[i])}
    IN  IF hits = {} THEN None
        ELSE Some(tokens[CHOOSE h \in hits : \A g \in hits : h <= g].attrs.content)

\* the path taken when the report-month tag is found
MetaPeriod(c) ==
    LET y == ToInt(SubSeq(c, 1, 4))
        m == ToInt(SubSeq(c, 6, 7))
    IN  [month |-> Some(m), year |-> Some(y), month_name |-> MonthLabel(m)]

\* the search of the visible text
HeuristicPeriod(tokens) ==
    LET p == Feed(ParserInit, tokens)
        blob == Join(p.all_text)
        f == MonthSearch(blob)
    IN  IF f.found_month = None
        THEN [month |-> None, year |-> None, month_name |-> None]
        ELSE [month |-> f.found_month,
              year |-> YearSearch(Around(blob, f.pos[1])),
              month_name |-> f.found_month_name]

\* a slip: the visible text is searched first and the tag only consulted
\* when the text names no month
extract_month_year_textfirst(tokens) ==
    LET meta == MetaSearch(tokens)
        h == HeuristicPeriod(tokens)
    IN  IF h.month # None \/ meta = None THEN h ELSE MetaPeriod(meta[1])

extract_month_year(tokens) ==
    LET meta == MetaSearch(tokens)
    IN  IF meta # None THEN MetaPeriod(meta[1]) ELSE HeuristicPeriod(tokens)

-----------------------------------------------------------------------------
(* Index builder *)

\* ord() of the characters file names are made of
CodePoint(c) ==
    CASE c = " " -> 32 [] c = "-" -> 45 [] c = "." -> 46 [] c = "7" -> 55
      [] c = "B" -> 66 [] c = "_" -> 95 [] c = "a" -> 97 [] c = "b" -> 98
      [] c = "h" -> 104 [] c = "l" -> 108 [] c = "m" -> 109 [] c = "t" -> 116

\* a < b for two paths of one directory: their names compared as strings
PathLess(a, b) ==
    \E k \in 1..(Min(Len(a), Len(b)) + 1) :
        /\ \A j \in 1..(k - 1) : a[j] = b[j]
        /\ IF k > Len(a) THEN k <= Len(b)
           ELSE k <= Len(b) /\ CodePoint(a[k]) < CodePoint(b[k])

\* x put into the ascending list seq
RECURSIVE Insert(_, _)
Insert(x, seq) ==
    IF seq = <<>> THEN <<x>>
    ELSE IF PathLess(x, Head(seq)) THEN <<x>> \o seq
    ELSE <<Head(seq)>> \o Insert(x, Tail(seq))

RECURSIVE InsertAll(_)
InsertAll(seq) ==
    IF seq = <<>> THEN <<>> ELSE Insert(Head(seq), InsertAll(Tail(seq)))

\* a slip: the paths are taken in the order glob yields them
Sorted_globorder(seq) == seq

\* sorted(REPORTS_DIR.glob("*.html"))
Sorted(seq) == InsertAll(seq)

\* the prefix of f"reports/{html_path.name}"
ReportsPrefix == <<"r", "e", "p", "o", "r", "t", "s", "/">>

\* lines 128 and 129 of main: the name before and after the whitespace is collapsed
ResolveName(tokens, fname) ==
    OrElse(extract_name_from_html(tokens), humanize_from_filename(fname))

CollapseName(s) == Strip(SubWhitespace(s))

\* the dict main appends to items
IndexRecord(tokens, fname) ==
    LET n == CollapseName(ResolveName(tokens, fname))
        my == extract_month_year(tokens)
    IN  [name |-> n,
         url |-> ReportsPrefix \o fname,
         month |-> my.month,
         month_name |-> my.month_name,
         year |-> my.year]

NoPeriod == [month |-> None, year |-> None, month_name |-> None]

-----------------------------------------------------------------------------
(* The inputs the specifications range over *)

\* the sequences over S of length at most n
SeqsUpTo(S, n) == UNION {[1..k -> S] : k \in 0..n}

\* the longest run of tokens fed to one parser
MaxEvents == 4

\* the longest title text
MaxTitle == 5

\* the longest file name, its .html suffix not counted
MaxStem == 3

\* how far the paddings between a month word and a year range
PadSpan == 5

\* the most files the reports directory holds
MaxFiles == 3

ParserTags == {"title", "TITLE", "h1", "p"}

ParserChunks == {<<" ">>, <<"a">>, <<" ", "b", "\n">>}

TitleChars(sep) == {sep, " ", "A", "b", "("}

HeadingText == <<"H", "d">>

\* a document with the title t in one piece and a heading
TitleDoc(t) ==
    <<StartTag("title"), Data(t), EndTag("title"),
      StartTag("h1"), Data(HeadingText), EndTag("h1")>>

\* a document whose title is cut in two by an inline element
SplitTitleDoc(t) ==
    <<StartTag("TITLE"), Data(SubSeq(t, 1, 2)), StartTag("b"),
      Data(SubSeq(t, 3, Len(t))), EndTag("b"), EndTag("title")>>

\* a document whose title is t (blank, if any) and whose heading is h
FallbackDoc(t, h) ==
    <<StartTag("title"), Data(t), EndTag("title"),
      StartTag("H1"), Data(h), EndTag("h1")>>

FilenameChars == {"a", "B", "_", "-", ".", " ", "7"}

FileNames == {base \o HtmlSuffix : base \in SeqsUpTo(FilenameChars, MaxStem)}

MetaTag(tag, attr, content) ==
    [type |-> "starttag", tag |-> tag,
     attrs |-> [name |-> attr, content |-> content], data |-> <<>>]

MetaContents ==
    {<<"2", "0", "2", "5", "-", "0", "7">>, <<"2", "0", "2", "4", "-", "1", "2">>,
     <<"1", "9", "9", "9", "-", "0", "1">>, <<"2", "0", "2", "3", "-", "1", "3">>,
     <<"2", "0", "2", "2", "-", "0", "0">>, <<"2", "0", "2", "5", "-", "7">>}

WordMart == <<"c_m", "c_a", "c_r", "c_t">>

WordMarta == <<"c_m", "c_a", "c_r", "c_t", "c_a">>

WordMaya == <<"C_M", "c_a", "c_ya">>

WordIyulya == <<"c_i", "c_yu", "c_l", "c_ya">>

WordDekabr == <<"C_D", "c_e", "c_k", "c_a", "c_b", "c_r", "c_soft">>

WordYanv == <<"c_ya", "c_n", "c_v", ".">>

Year2019 == <<"2", "0", "1", "9">>

Year2024 == <<"2", "0", "2", "4">>

\* n filler characters
Pad(n) == [i \in 1..n |-> "x"]

\* the visible text of the documents that carry a report-month tag
MetaDocTexts ==
    {<<>>, WordMart \o <<" ">> \o Year2024, Year2019 \o <<" ">> \o WordDekabr}

\* documents with one or two meta tags before their text
MetaDocs ==
    {<<MetaTag(tag, attr, c)>> \o more \o <<StartTag("p"), Data(t)>> :
        tag \in {"meta", "META"}, attr \in {"report-month", "Report-Month", "author"},
        c \in MetaContents,
        more \in {<<>>} \cup {<<MetaTag("meta", "report-month", d)>> : d \in MetaContents},
        t \in MetaDocTexts}

PadsBefore == {0} \cup ((Window - 8)..(Window - 8 + PadSpan))

PadsAfter == {1} \cup ((Window - 12)..(Window - 12 + PadSpan))

\* documents without a meta tag: a year, padding, a month word, padding, a
\* year, and a second month word in the heading
TextDocs ==
    {<<StartTag("p"), Data(y1 \o Pad(a)), EndTag("p"),
       Data(w1 \o Pad(b) \o y2), StartTag("h1"), Data(w2)>> :
        y1 \in {<<>>, Year2019, <<"1", "9", "9", "9">>},
        a \in PadsBefore,
        w1 \in {<<>>, WordMart, WordMaya, WordIyulya, WordDekabr},
        b \in PadsAfter,
        y2 \in {<<>>, Year2024, <<"1", "2", "0", "2", "5", "6">>},
        w2 \in {<<>>, WordYanv, WordMarta}}

\* the documents of the end-to-end example, one with a month no calendar
\* has, and an empty one
MainDocs ==
    {<<StartTag("title"),
       Data(<<"R", "e", "p", "o", "r", "t", ":", " ", "S", "m", "i", "t", "h", " ",
              "J", "o", "h", "n">>),
       EndTag("title"),
       Data(<<"c_z", "c_a", " ">> \o WordMart \o <<" ">> \o Year2024)>>,
     <<MetaTag("meta", "report-month", <<"2", "0", "2", "5", "-", "0", "7">>)>>,
     <<MetaTag("meta", "report-month", <<"2", "0", "2", "3", "-", "1", "3">>)>>}

MainNames ==
    {<<"a">> \o HtmlSuffix, <<"b">> \o HtmlSuffix, <<"B">> \o HtmlSuffix,
     <<"a", "-">> \o HtmlSuffix, <<"a", "b">> \o HtmlSuffix}

\* the orders glob may yield the files of a directory in
Listings(names) ==
    {l \in [1..Cardinality(names) -> names] :
        \A i, j \in 1..Cardinality(names) : i # j => l[i] # l[j]}

-----------------------------------------------------------------------------
(* The feeding of one parser, token by token *)

InitParser ==
    /\ pc = "feeding"
    /\ parser = ParserInit
    /\ fed = <<>>
    /\ text = <<>>
    /\ html_path = <<>>
    /\ raw_name = None
    /\ name = <<>>
    /\ period = NoPeriod
    /\ reports = <<>>
    /\ listing = <<>>
    /\ todo = <<>>
    /\ items = <<>>
    /\ outfile = None

FeedStartTag ==
    /\ pc = "feeding"
    /\ Len(fed) < MaxEvents
    /\ \E t \in ParserTags :
        /\ parser' = handle_starttag(parser, t)
        /\ fed' = Append(fed, StartTag(t))
    /\ UNCHANGED <<pc, text, html_path, raw_name, name, period,
                   reports, listing, todo, items, outfile>>

FeedEndTag ==
    /\ pc = "feeding"
    /\ Len(fed) < MaxEvents
    /\ \E t \in ParserTags :
        /\ parser' = handle_endtag(parser, t)
        /\ fed' = Append(fed, EndTag(t))
    /\ UNCHANGED <<pc, text, html_path, raw_name, name, period,
                   reports, listing, todo, items, outfile>>

FeedData ==
    /\ pc = "feeding"
    /\ Len(fed) < MaxEvents
    /\ \E d \in ParserChunks :
        /\ parser' = handle_data(parser, d)
        /\ fed' = Append(fed, Data(d))
    /\ UNCHANGED <<pc, text, html_path, raw_name, name, period,
                   reports, listing, todo, items, outfile>>

NextParser == FeedStartTag \/ FeedEndTag \/ FeedData

SpecParser == InitParser /\ [][NextParser]_vars

-----------------------------------------------------------------------------
(* The name of one document: lines 128 and 129 of main *)

InitName ==
    /\ pc = "name_start"
    /\ parser = ParserInit
    /\ fed = <<>>
    /\ \/ /\ html_path = <<"a">> \o HtmlSuffix
          /\ \E sep \in Separators : \E t \in SeqsUpTo(TitleChars(sep), MaxTitle) :
                \/ text = TitleDoc(t)
                \/ Len(t) >= 3 /\ text = SplitTitleDoc(t)
       \/ /\ html_path \in FileNames
          /\ \E t \in {<<>>, <<" ">>} : \E h \in {<<>>, <<"\n">>, <<"H", " ", "\n", "d">>} :
                text = FallbackDoc(t, h)
    /\ raw_name = None
    /\ name = <<>>
    /\ period = NoPeriod
    /\ reports = <<>>
    /\ listing = <<>>
    /\ todo = <<>>
    /\ items = <<>>
    /\ outfile = None

NameResolve ==
    /\ pc = "name_start"
    /\ raw_name' = extract_name_from_html(text)
    /\ name' = ResolveName(text, html_path)
    /\ pc' = "name_resolved"
    /\ UNCHANGED <<parser, fed, text, html_path, period,
                   reports, listing, todo, items, outfile>>

NameCollapse ==
    /\ pc = "name_resolved"
    /\ name' = CollapseName(name)
    /\ pc' = "name_done"
    /\ UNCHANGED <<parser, fed, text, html_path, raw_name, period,
                   reports, listing, todo, items, outfile>>

NextName == NameResolve \/ NameCollapse

SpecName == InitName /\ [][NextName]_vars

-----------------------------------------------------------------------------
(* The period of one document: one call of extract_month_year *)

InitPeriod ==
    /\ pc = "period_start"
    /\ parser = ParserInit
    /\ fed = <<>>
    /\ text \in MetaDocs \cup TextDocs
    /\ html_path = <<"a">> \o HtmlSuffix
    /\ raw_name = None
    /\ name = <<>>
    /\ period = NoPeriod
    /\ reports = <<>>
    /\ listing = <<>>
    /\ todo = <<>>
    /\ items = <<>>
    /\ outfile = None

PeriodCall ==
    /\ pc = "period_start"
    /\ period' = extract_month_year(text)
    /\ pc' = "period_done"
    /\ UNCHANGED <<parser, fed, text, html_path, raw_name, name,
                   reports, listing, todo, items, outfile>>

NextPeriod == PeriodCall

SpecPeriod == InitPeriod /\ [][NextPeriod]_vars

-----------------------------------------------------------------------------
(* main *)

Init ==
    /\ pc = "main_start"
    /\ parser = ParserInit
    /\ fed = <<>>
    /\ text = <<>>
    /\ html_path = <<>>
    /\ raw_name = None
    /\ name = <<>>
    /\ period = NoPeriod
    /\ \E names \in SUBSET MainNames :
        /\ Cardinality(names) <= MaxFiles
        /\ reports \in [names -> MainDocs]
        /\ listing \in Listings(names)
    /\ todo = <<>>
    /\ items = <<>>
    /\ outfile = None

\* sorted(REPORTS_DIR.glob("*.html")) and items = []
MainSort ==
    /\ pc = "main_start"
    /\ todo' = Sorted(listing)
    /\ items' = <<>>
    /\ pc' = "main_loop"
    /\ UNCHANGED <<parser, fed, text, html_path, raw_name, name, period,
                   reports, listing, outfile>>

\* one turn of the loop
MainIterate ==
    /\ pc = "main_loop"
    /\ todo # <<>>
    /\ html_path' = Head(todo)
    /\ text' = reports[Head(todo)]
    /\ name' = CollapseName(ResolveName(reports[Head(todo)], Head(todo)))
    /\ period' = extract_month_year(reports[Head(todo)])
    /\ items' = Append(items, IndexRecord(reports[Head(todo)], Head(todo)))
    /\ todo' = Tail(todo)
    /\ UNCHANGED <<pc, parser, fed, raw_name, reports, listing, outfile>>

\* OUTFILE.write_text(json.dumps(items, ...))
MainWrite ==
    /\ pc = "main_loop"
    /\ todo = <<>>
    /\ outfile' = Some(items)
    /\ pc' = "main_done"
    /\ UNCHANGED <<parser, fed, text, html_path, raw_name, name, period,
                   reports, listing, todo, items>>

Next == MainSort \/ MainIterate \/ MainWrite

Spec == Init /\ [][Next]_vars

-----------------------------------------------------------------------------
(* Properties *)

\* the index of the first tag of the text that the report-month pattern matches, 0 if none
FirstMeta ==
    IF \E i \in 1..Len(text) : MetaMatch(text[i])
    THEN CHOOSE i \in 1..Len(text) :
            MetaMatch(text[i]) /\ \A j \in 1..(i - 1) : ~MetaMatch(text[j])
    ELSE 0

\* the content YYYY-MM names a month of the calendar, 01 to 12
CalendarMonth(c) ==
    \/ c[6] = "0" /\ c[7] \in Digits \ {"0"}
    \/ c[6] = "1" /\ c[7] \in {"0", "1", "2"}

\* what the tags of the model declare: content, month, year, label
MetaExpected ==
    {<<<<"2", "0", "2", "5", "-", "0", "7">>, 7, 2025, "Iyul">>,
     <<<<"2", "0", "2", "4", "-", "1", "2">>, 12, 2024, "Dekabr">>,
     <<<<"1", "9", "9", "9", "-", "0", "1">>, 1, 1999, "Yanvar">>}

\* the visible text of the document, joined by spaces
VisibleBlob == Join(Feed(ParserInit, text).all_text)

\* C1: a document whose report-month tag declares YYYY-MM with MM in 01..12
\* gets exactly that month, that year and that month's label, whatever
\* month words and years its visible text holds.
C1_MetaIsAuthoritative ==
    (pc = "period_done" /\ FirstMeta # 0 /\ CalendarMonth(text[FirstMeta].attrs.content))
    => \E row \in MetaExpected :
          /\ row[1] = text[FirstMeta].attrs.content
          /\ period = [month |-> <<row[2]>>, year |-> <<row[3]>>, month_name |-> <<row[4]>>]

\* C1 witness: the tag says July 2025 while the text says March 2024
C1_Witness ==
    /\ pc = "period_done"
    /\ FirstMeta # 0
    /\ period = [month |-> <<7>>, year |-> <<2025>>, month_name |-> <<"Iyul">>]
    /\ LET b == VisibleBlob
       IN  RxSearch(MONTHS[3].pat, b) # None /\ YearSearch(b) = <<2024>>

\* C2: in every result of extract_month_year the month and the month name
\* are both present or both absent.
C2_MonthAndNameTogether ==
    pc = "period_done" => ((period.month = None) <=> (period.month_name = None))

\* C3: the month of every index record is absent or a number from 1 to 12.
C3_MonthInCalendar ==
    \A i \in 1..Len(items) : items[i].month = None \/ items[i].month[1] \in 1..12

\* the text of the title element, joined and trimmed
TitleOf == Strip(Join(Feed(ParserInit, text).title_text))

\* the text of the heading element, joined and trimmed
HeadingOf == Strip(Join(Feed(ParserInit, text).h1_text))

\* the file name without its .html suffix
BaseOf == SubSeq(html_path, 1, Len(html_path) - Len(HtmlSuffix))

Qualifies(title, j, minws) ==
    /\ title[j] \in UpperLetters
    /\ Len(title) - j + 1 >= 3
    /\ \A k \in j..Len(title) : title[k] \notin Excluded
    /\ \E i \in 1..(j - 1 - minws) :
          /\ title[i] \in Separators
          /\ \A l \in (i + 1)..(j - 1) : title[l] \in Whitespace

\* the name a title gives when the whitespace after the separator must be
\* at least minws long: the longest qualifying segment, or the whole title
NameOfTitle(title, minws) ==
    LET q == {j \in 1..Len(title) : Qualifies(title, j, minws)}
    IN  IF q = {} THEN title
        ELSE SubSeq(title, CHOOSE j \in q : \A k \in q : j <= k, Len(title))

\* C5 as claimed: the trailing segment is returned exactly when a separator
\* is followed by whitespace and then by a qualifying segment; otherwise
\* the whole title is.
C5_TrailingSegment ==
    (pc \in {"name_resolved", "name_done"} /\ TitleOf # <<>>)
    => raw_name = <<NameOfTitle(TitleOf, 1)>>

\* C5 as amended: the whitespace between the separator and the segment is
\* optional.
C5_TrailingSegmentAmended ==
    (pc \in {"name_resolved", "name_done"} /\ TitleOf # <<>>)
    => raw_name = <<NameOfTitle(TitleOf, 0)>>

\* C5 witness: a segment right after its separator is returned
C5_Witness ==
    /\ pc = "name_resolved"
    /\ TitleOf = <<"b", "-", "A", "b", "b">>
    /\ raw_name = <<<<"A", "b", "b">>>>

\* the months whose pattern matches somewhere in b
MonthsIn(b) ==
    {n \in 1..12 : \E i \in 1..Len(b) : RxMatchAt(MONTHS[n].pat, b, i)}

\* C6: without a report-month tag the month is the smallest month number
\* whose pattern matches anywhere in the visible text, with its label; with
\* no match all three fields are absent.
C6_SmallestMonthWins ==
    (pc = "period_done" /\ FirstMeta = 0)
    => LET found == MonthsIn(VisibleBlob)
       IN  IF found = {} THEN period = NoPeriod
           ELSE LET n == CHOOSE m \in found : \A k \in found : m <= k
                IN  period.month = <<n>> /\ period.month_name = <<MONTHS[n].label>>

\* C6 witness: March wins although July stands before it in the text
C6_Witness ==
    /\ pc = "period_done"
    /\ FirstMeta = 0
    /\ period.month = <<3>>
    /\ period.month_name = <<"Mart">>
    /\ LET b == VisibleBlob
       IN  /\ RxSearch(MONTHS[7].pat, b) # None
           /\ RxSearch(MONTHS[7].pat, b)[1] < RxSearch(MONTHS[3].pat, b)[1]

\* the offsets, from 0, of the sequences 20dd of b that lie wholly between
\* 40 characters before and 40 characters after the offset pos
YearsInWindow(b, pos) ==
    {o \in 0..(Len(b) - 4) :
        /\ o >= pos - 40
        /\ o + 4 <= pos + 40
        /\ YearMatchAt(b, o + 1)}

\* the number the four digits of b at offset o spell
YearAt(b, o) ==
    1000 * DigitVal(b[o + 1]) + 100 * DigitVal(b[o + 2])
      + 10 * DigitVal(b[o + 3]) + DigitVal(b[o + 4])

\* a month is returned for a document without a report-month tag
MonthFromText == pc = "period_done" /\ FirstMeta = 0 /\ period.month # None

Abs(x) == IF x < 0 THEN -x ELSE x

\* C10: the year returned is, among the sequences 20dd of the window, one
\* nearest to the month's offset.
C10_NearestYear ==
    (MonthFromText /\ period.year # None)
    => LET b == VisibleBlob
           pos == RxSearch(MONTHS[period.month[1]].pat, b)[1]
           years == YearsInWindow(b, pos)
       IN  \E o \in years :
              /\ period.year = <<YearAt(b, o)>>
              /\ \A q \in years : Abs(o - pos) <= Abs(q - pos)

\* the number of files of the directory that sort before f, plus one
Rank(f) == Cardinality({g \in DOMAIN reports : PathLess(g, f)}) + 1

\* C8: the index holds one record per document, in ascending order of
\* file name: record i has the url of the i-th smallest file name.
C8_OrderedByFilename ==
    /\ pc = "main_done" => Len(items) = Cardinality(DOMAIN reports)
    /\ \A i \in 1..Len(items) :
          \E f \in DOMAIN reports : Rank(f) = i /\ items[i].url = ReportsPrefix \o f

\* C8 witness: three files listed in another order than they are indexed in,
\* the record of a-.html before that of a.html
C8_Witness ==
    /\ pc = "main_done"
    /\ Len(items) = 3
    /\ listing[1] = <<"a">> \o HtmlSuffix
    /\ listing[2] = <<"a", "-">> \o HtmlSuffix
    /\ items[1].url = ReportsPrefix \o <<"B">> \o HtmlSuffix
    /\ items[2].url = ReportsPrefix \o <<"a", "-">> \o HtmlSuffix
    /\ items[3].url = ReportsPrefix \o <<"a">> \o HtmlSuffix
    /\ items[1].name # items[3].name

\* token k of the fed tokens opens or closes the element el
TogglesElement(k, el) ==
    fed[k].type \in {"starttag", "endtag"} /\ LowerTag(fed[k].tag) = el

\* the last token before k that opens or closes el opens it
OpenBefore(k, el) ==
    \E j \in 1..(k - 1) :
        /\ TogglesElement(j, el)
        /\ fed[j].type = "starttag"
        /\ \A l \in (j + 1)..(k - 1) : ~TogglesElement(l, el)

\* token k is a text chunk that is not blank
KeptChunk(k) == fed[k].type = "data" /\ Strip(fed[k].data) # <<>>

\* the trimmed chunks of the first k tokens whose index is in sel, in order
RECURSIVE ChunksOf(_, _)
ChunksOf(k, sel) ==
    IF k = 0 THEN <<>>
    ELSE ChunksOf(k - 1, sel) \o (IF k \in sel THEN <<Strip(fed[k].data)>> ELSE <<>>)

\* C9: after any tokens, all_text is the trimmed non-blank chunks in order,
\* title_text those that came while the title element was last opened, and
\* h1_text those that came while the heading element was last opened.
C9_BuffersFollowTokens ==
    LET kept == {k \in 1..Len(fed) : KeptChunk(k)}
    IN  /\ parser.all_text = ChunksOf(Len(fed), kept)
        /\ parser.title_text = ChunksOf(Len(fed), {k \in kept : OpenBefore(k, "title")})
        /\ parser.h1_text = ChunksOf(Len(fed), {k \in kept : OpenBefore(k, "h1")})
        /\ parser.in_title = OpenBefore(Len(fed) + 1, "title")
        /\ parser.in_h1 = OpenBefore(Len(fed) + 1, "h1")

\* C9 witness: a chunk inside both elements is in all three buffers, and a
\* blank chunk after it is in none
C9_Witness ==
    /\ Len(fed) = 4
    /\ fed[4] = Data(<<" ">>)
    /\ parser.all_text = <<<<"b">>>>
    /\ parser.title_text = <<<<"b">>>>
    /\ parser.h1_text = <<<<"b">>>>

=============================================================================
